---- MODULE Spec2Model ----
(***************************************************************************)
(* Model of fetch_current_season.py: two remote fetches, a merge on the    *)
(* team identifier, a sort by team name, a CSV file and a preview.         *)
(*                                                                         *)
(* Representation.                                                         *)
(*  - A Python str is the sequence of its code points ("A" is <<65>>);     *)
(*    str ordering is the lexicographic order of those sequences.          *)
(*  - A Python dict is the sequence of its items [k, v] in insertion       *)
(*    order, which is the order dict.items() iterates in.                  *)
(*  - A rounded float is the integer count of its last kept decimal:       *)
(*    W_PCT, AST_PCT, REB_PCT, TS_PCT in thousandths, the three ratings in *)
(*    tenths, PACE in hundredths.  The raw values of the responses are     *)
(*    dyadic rationals (quarters, sixteenths, eighths), which a float      *)
(*    holds exactly, so that round() is round-half-even on the exact       *)
(*    value.  wins/(wins+losses) is the nearest double of the quotient;    *)
(*    for wins+losses < 80 every quotient that lies exactly halfway        *)
(*    between two thousandths is dyadic, so round-half-even on the exact   *)
(*    quotient is what round(wins/(wins+losses), 3) returns.               *)
(*  - The file at the output path is [exists, header, data]: the header    *)
(*    line as its list of column names, the data lines as lists of values. *)
(*  - open() and the writes of write_csv are taken to succeed and the      *)
(*    remote calls to return or raise an Exception.                        *)
(*  - A run starts at the try statement of main: nba_api is imported and   *)
(*    the command line is parsed; one output path is modelled.             *)
(***************************************************************************)
EXTENDS Integers, Sequences, FiniteSets, TLC

VARIABLES
    pc,             \* position of main
    api_standings,  \* rows of the leaguestandingsv3 data frame
    api_advanced,   \* rows of the leaguedashteamstats data frame
    standings,      \* main's local `standings`
    advanced,       \* main's local `advanced`
    rows,           \* main's local `rows`
    warnings,       \* team names of the "Skipping" lines printed by build_rows
    shown,          \* what preview printed
    file,           \* content of the file at args.output
    file0,          \* content of that file when the process started
    error,          \* text of the exception caught in main ("" if none)
    exit_code,      \* <<status>> once the process has exited, <<>> while it runs
    calls           \* the components called so far, in call order

vars == <<pc, api_standings, api_advanced, standings, advanced, rows, warnings,
          shown, file, file0, error, exit_code, calls>>

-----------------------------------------------------------------------------
(* Bounds *)

MaxTeams == 2      \* rows per response; team ids are 9 .. 8+MaxTeams
MaxWins == 16      \* wins range over 0..MaxWins in SpecWinPct
MaxLosses == 16    \* losses range over 0..MaxLosses in SpecWinPct

BoundedSeq(S, n) == UNION {[1..k -> S] : k \in 0..n}

TeamIds == {8 + i : i \in 1..MaxTeams}

\* "A" < "AB" < "B"; with the records 2-1, 0-0 and 1-15.
TeamSamples ==
    {[TEAMNAME |-> <<65>>,     WINS |-> 2, LOSSES |-> 1],
     [TEAMNAME |-> <<65, 66>>, WINS |-> 0, LOSSES |-> 0],
     [TEAMNAME |-> <<66>>,     WINS |-> 1, LOSSES |-> 15]}

\* Rows of the standings data frame.
StandingsRows ==
    {[TEAMID |-> i, TEAMNAME |-> t.TEAMNAME, WINS |-> t.WINS, LOSSES |-> t.LOSSES] :
        i \in TeamIds, t \in TeamSamples}

\* The row of the advanced data frame for team i: ratings in quarters,
\* percentages in sixteenths, pace in eighths, all different per team.
AdvancedRow(i) ==
    [TEAM_ID    |-> i,
     OFF_RATING |-> 440 + i,
     DEF_RATING |-> 452 - 3 * i,
     NET_RATING |-> 2 * i - 21,
     AST_PCT    |-> i + 1,
     REB_PCT    |-> i - 1,
     TS_PCT     |-> 19 - i,
     PACE       |-> 780 + i]

AdvancedRows == {AdvancedRow(i) : i \in TeamIds}

NoFile == [exists |-> FALSE, header |-> <<>>, data |-> <<>>]

\* What an earlier run left at the output path.
EarlierFile ==
    [exists |-> TRUE,
     header |-> <<"TEAM_ID", "TEAM_NAME">>,
     data   |-> << <<<<55>>, <<90>>>> >>]

PriorFiles == {NoFile, EarlierFile}

-----------------------------------------------------------------------------
(* Config *)

SEASON == "2025-26"

CSV_COLUMNS ==
    <<"TEAM_ID", "TEAM_NAME", "W_PCT",
      "OFF_RATING", "DEF_RATING", "NET_RATING",
      "AST_PCT", "REB_PCT", "TS_PCT", "PACE",
      "Season">>

PreviewLimit == 5

-----------------------------------------------------------------------------
(* Python primitives *)

\* str(n) for an int n >= 0: the code points of its decimal digits.
RECURSIVE Str(_)
Str(n) == IF n < 10 THEN <<48 + n>> ELSE Append(Str(n \div 10), 48 + (n % 10))

\* a < b for two str values.
RECURSIVE StrLess(_, _)
StrLess(a, b) ==
    IF b = <<>> THEN FALSE
    ELSE IF a = <<>> THEN TRUE
    ELSE IF Head(a) # Head(b) THEN Head(a) < Head(b)
    ELSE StrLess(Tail(a), Tail(b))

\* round() of the exact value num/den (den > 0) to an integer, ties to even.
RoundHalfEven(num, den) ==
    LET q == num \div den
        r == num % den
    IN  IF 2 * r < den THEN q
        ELSE IF 2 * r > den THEN q + 1
        ELSE IF q % 2 = 0 THEN q ELSE q + 1

\* round(a / b, 3) in thousandths; a / b raises ZeroDivisionError when b = 0.
TrueDivRound3(a, b) ==
    IF b = 0 THEN [raised |-> TRUE, value |-> 0]
    ELSE [raised |-> FALSE, value |-> RoundHalfEven(1000 * a, b)]

\* k in d
DictHas(d, k) == \E i \in 1..Len(d) : d[i].k = k

\* d[k]
DictGet(d, k) == d[CHOOSE i \in 1..Len(d) : d[i].k = k].v

\* d[k] = v: a present key keeps its position, a new key goes last.
DictSet(d, k, v) ==
    IF DictHas(d, k)
    THEN [i \in 1..Len(d) |-> IF d[i].k = k THEN [k |-> k, v |-> v] ELSE d[i]]
    ELSE Append(d, [k |-> k, v |-> v])

Keys(d) == {d[i].k : i \in 1..Len(d)}

-----------------------------------------------------------------------------
(* fetch_standings *)

WinPctGuardOff(wins, losses) == TRUE

\* the condition of the conditional expression
WinPctGuard(wins, losses) == (wins + losses) > 0

\* w_pct = round(wins / (wins + losses), 3) if (wins + losses) > 0 else 0.0
WinPct(wins, losses) ==
    IF WinPctGuard(wins, losses)
    THEN TrueDivRound3(wins, wins + losses)
    ELSE [raised |-> FALSE, value |-> 0]

\* The loop over the data frame: the dict built, and whether a row raised.
RECURSIVE StandingsLoop(_)
StandingsLoop(df) ==
    IF df = <<>> THEN [raised |-> FALSE, dict |-> <<>>]
    ELSE LET n    == Len(df)
             prev == StandingsLoop(SubSeq(df, 1, n - 1))
             row  == df[n]
             tid  == Str(row.TEAMID)
             w    == WinPct(row.WINS, row.LOSSES)
         IN  IF prev.raised \/ w.raised
             THEN [raised |-> TRUE, dict |-> prev.dict]
             ELSE [raised |-> FALSE,
                   dict |-> DictSet(prev.dict, tid,
                                [TEAM_NAME |-> row.TEAMNAME, W_PCT |-> w.value])]

-----------------------------------------------------------------------------
(* fetch_advanced_stats *)

\* The stat dict of one row: each metric rounded to its precision.
AdvancedEntry(row) ==
    [OFF_RATING |-> RoundHalfEven(10 * row.OFF_RATING, 4),
     DEF_RATING |-> RoundHalfEven(10 * row.DEF_RATING, 4),
     NET_RATING |-> RoundHalfEven(10 * row.NET_RATING, 4),
     AST_PCT    |-> RoundHalfEven(1000 * row.AST_PCT, 16),
     REB_PCT    |-> RoundHalfEven(1000 * row.REB_PCT, 16),
     TS_PCT     |-> RoundHalfEven(1000 * row.TS_PCT, 16),
     PACE       |-> RoundHalfEven(100 * row.PACE, 8)]

RECURSIVE AdvancedLoop(_)
AdvancedLoop(df) ==
    IF df = <<>> THEN <<>>
    ELSE LET n == Len(df)
         IN  DictSet(AdvancedLoop(SubSeq(df, 1, n - 1)),
                     Str(df[n].TEAM_ID), AdvancedEntry(df[n]))

-----------------------------------------------------------------------------
(* build_rows *)

MergedRowSwapped(tid, s, adv) ==
    [TEAM_ID    |-> tid,
     TEAM_NAME  |-> s.TEAM_NAME,
     W_PCT      |-> s.W_PCT,
     OFF_RATING |-> adv.DEF_RATING,
     DEF_RATING |-> adv.OFF_RATING,
     NET_RATING |-> adv.NET_RATING,
     AST_PCT    |-> adv.AST_PCT,
     REB_PCT    |-> adv.REB_PCT,
     TS_PCT     |-> adv.TS_PCT,
     PACE       |-> adv.PACE,
     Season     |-> SEASON]

\* The dict appended for one team.
MergedRow(tid, s, adv) ==
    [TEAM_ID    |-> tid,
     TEAM_NAME  |-> s.TEAM_NAME,
     W_PCT      |-> s.W_PCT,
     OFF_RATING |-> adv.OFF_RATING,
     DEF_RATING |-> adv.DEF_RATING,
     NET_RATING |-> adv.NET_RATING,
     AST_PCT    |-> adv.AST_PCT,
     REB_PCT    |-> adv.REB_PCT,
     TS_PCT     |-> adv.TS_PCT,
     PACE       |-> adv.PACE,
     Season     |-> SEASON]

\* A loop that stops at the first team missing from the advanced stats.
RECURSIVE MergeLoopBreak(_, _)
MergeLoopBreak(st, adv) ==
    IF st = <<>> THEN [rows |-> <<>>, warnings |-> <<>>, stopped |-> FALSE]
    ELSE LET n    == Len(st)
             prev == MergeLoopBreak(SubSeq(st, 1, n - 1), adv)
             tid  == st[n].k
             s    == st[n].v
         IN  IF prev.stopped THEN prev
             ELSE IF ~DictHas(adv, tid)
             THEN [rows |-> prev.rows,
                   warnings |-> Append(prev.warnings, s.TEAM_NAME),
                   stopped |-> TRUE]
             ELSE [rows |-> Append(prev.rows, MergedRow(tid, s, DictGet(adv, tid))),
                   warnings |-> prev.warnings,
                   stopped |-> FALSE]

\* The loop over standings.items(): the rows appended and the warnings printed.
RECURSIVE MergeLoop(_, _)
MergeLoop(st, adv) ==
    IF st = <<>> THEN [rows |-> <<>>, warnings |-> <<>>, stopped |-> FALSE]
    ELSE LET n    == Len(st)
             prev == MergeLoop(SubSeq(st, 1, n - 1), adv)
             tid  == st[n].k
             s    == st[n].v
         IN  IF ~DictHas(adv, tid)
             THEN [rows |-> prev.rows,
                   warnings |-> Append(prev.warnings, s.TEAM_NAME),
                   stopped |-> FALSE]
             ELSE [rows |-> Append(prev.rows, MergedRow(tid, s, DictGet(adv, tid))),
                   warnings |-> prev.warnings,
                   stopped |-> FALSE]

\* An insertion that drops a row whose TEAM_NAME is already there.
RECURSIVE InsertSortedUnique(_, _)
InsertSortedUnique(r, s) ==
    IF s = <<>> THEN <<r>>
    ELSE IF StrLess(r.TEAM_NAME, Head(s).TEAM_NAME) THEN <<r>> \o s
    ELSE IF r.TEAM_NAME = Head(s).TEAM_NAME THEN s
    ELSE <<Head(s)>> \o InsertSortedUnique(r, Tail(s))

\* An insertion that puts r in front of the rows with an equal key.
RECURSIVE InsertSortedFront(_, _)
InsertSortedFront(r, s) ==
    IF s = <<>> THEN <<r>>
    ELSE IF ~StrLess(Head(s).TEAM_NAME, r.TEAM_NAME) THEN <<r>> \o s
    ELSE <<Head(s)>> \o InsertSortedFront(r, Tail(s))

\* r placed in the sorted list s behind every row whose key is not greater.
RECURSIVE InsertSorted(_, _)
InsertSorted(r, s) ==
    IF s = <<>> THEN <<r>>
    ELSE IF StrLess(r.TEAM_NAME, Head(s).TEAM_NAME) THEN <<r>> \o s
    ELSE <<Head(s)>> \o InsertSorted(r, Tail(s))

NoSort(rs) == rs

\* rows.sort(key=lambda r: r["TEAM_NAME"]): ascending and stable.
RECURSIVE SortByTeamName(_)
SortByTeamName(rs) ==
    IF rs = <<>> THEN <<>>
    ELSE LET n == Len(rs)
         IN  InsertSorted(rs[n], SortByTeamName(SubSeq(rs, 1, n - 1)))

build_rows(st, adv) ==
    LET m == MergeLoop(st, adv)
    IN  [rows |-> SortByTeamName(m.rows), warnings |-> m.warnings]

-----------------------------------------------------------------------------
(* write_csv and preview *)

\* The values DictWriter writes for one row, in fieldnames order.
RowFields(r) ==
    <<r.TEAM_ID, r.TEAM_NAME, r.W_PCT, r.OFF_RATING, r.DEF_RATING, r.NET_RATING,
      r.AST_PCT, r.REB_PCT, r.TS_PCT, r.PACE, r.Season>>

write_csv_lazy_header(rs) ==
    [exists |-> TRUE,
     header |-> IF rs = <<>> THEN <<>> ELSE CSV_COLUMNS,
     data   |-> [i \in 1..Len(rs) |-> RowFields(rs[i])]]

\* The file after open(filepath, "w"), writeheader() and writerows(rows).
write_csv(rs) ==
    [exists |-> TRUE,
     header |-> CSV_COLUMNS,
     data   |-> [i \in 1..Len(rs) |-> RowFields(rs[i])]]

\* The team names of rows[:5] and the count of the "... and N more" line.
preview(rs) ==
    LET n == IF Len(rs) > PreviewLimit THEN PreviewLimit ELSE Len(rs)
    IN  [names |-> [i \in 1..n |-> rs[i].TEAM_NAME],
         more  |-> IF Len(rs) > PreviewLimit THEN Len(rs) - PreviewLimit ELSE 0]

NoRowsNever(rs) == FALSE

\* not rows
NoRows(rs) == rs = <<>>

-----------------------------------------------------------------------------
(* main *)

Init ==
    /\ pc = "fetch_standings"
    /\ api_standings \in BoundedSeq(StandingsRows, MaxTeams)
    /\ api_advanced \in BoundedSeq(AdvancedRows, MaxTeams)
    /\ standings = <<>>
    /\ advanced = <<>>
    /\ rows = <<>>
    /\ warnings = <<>>
    /\ shown = [names |-> <<>>, more |-> 0]
    /\ file0 \in PriorFiles
    /\ file = file0
    /\ error = ""
    /\ exit_code = <<>>
    /\ calls = <<>>

\* The except branch of main: print the diagnostic, sys.exit(1).
ExceptExit(component, text) ==
    /\ calls' = Append(calls, component)
    /\ error' = text
    /\ exit_code' = <<1>>
    /\ pc' = "exit"
    /\ UNCHANGED <<api_standings, api_advanced, standings, advanced, rows,
                   warnings, shown, file, file0>>

\* fetch_standings() raises: the remote call or the parsing failed.
FetchStandingsRaises ==
    /\ pc = "fetch_standings"
    /\ ExceptExit("fetch_standings", "ConnectionError")

\* fetch_standings() runs its loop; a ZeroDivisionError of the loop is caught
\* by main like any other exception.
FetchStandingsReturns ==
    /\ pc = "fetch_standings"
    /\ LET res == StandingsLoop(api_standings)
       IN  IF res.raised
           THEN ExceptExit("fetch_standings", "ZeroDivisionError")
           ELSE /\ standings' = res.dict
                /\ calls' = Append(calls, "fetch_standings")
                /\ pc' = "fetch_advanced_stats"
                /\ UNCHANGED <<api_standings, api_advanced, advanced, rows,
                               warnings, shown, file, file0, error, exit_code>>

\* An except branch that only prints and lets main go on.
FetchAdvancedRaisesSwallowed ==
    /\ pc = "fetch_advanced_stats"
    /\ calls' = Append(calls, "fetch_advanced_stats")
    /\ error' = "ConnectionError"
    /\ pc' = "build_rows"
    /\ UNCHANGED <<api_standings, api_advanced, standings, advanced, rows,
                   warnings, shown, file, file0, exit_code>>

\* fetch_advanced_stats() raises.
FetchAdvancedRaises ==
    /\ pc = "fetch_advanced_stats"
    /\ ExceptExit("fetch_advanced_stats", "ConnectionError")

\* A main that forgets the second fetch.
FetchAdvancedSkipped ==
    /\ pc = "fetch_advanced_stats"
    /\ pc' = "build_rows"
    /\ UNCHANGED <<api_standings, api_advanced, standings, advanced, rows,
                   warnings, shown, file, file0, error, exit_code, calls>>

\* fetch_advanced_stats() returns the stats dict.
FetchAdvancedReturns ==
    /\ pc = "fetch_advanced_stats"
    /\ advanced' = AdvancedLoop(api_advanced)
    /\ calls' = Append(calls, "fetch_advanced_stats")
    /\ pc' = "build_rows"
    /\ UNCHANGED <<api_standings, api_advanced, standings, rows, warnings,
                   shown, file, file0, error, exit_code>>

\* rows = build_rows(standings, advanced)
BuildRows ==
    /\ pc = "build_rows"
    /\ LET res == build_rows(standings, advanced)
       IN  /\ rows' = res.rows
           /\ warnings' = res.warnings
    /\ calls' = Append(calls, "build_rows")
    /\ pc' = "check_rows"
    /\ UNCHANGED <<api_standings, api_advanced, standings, advanced, shown,
                   file, file0, error, exit_code>>

\* if not rows: print the diagnostic, sys.exit(1)
ExitNoRows ==
    /\ pc = "check_rows"
    /\ NoRows(rows)
    /\ exit_code' = <<1>>
    /\ pc' = "exit"
    /\ UNCHANGED <<api_standings, api_advanced, standings, advanced, rows,
                   warnings, shown, file, file0, error, calls>>

\* write_csv(rows, args.output)
WriteCsv ==
    /\ pc = "check_rows"
    /\ ~NoRows(rows)
    /\ file' = write_csv(rows)
    /\ calls' = Append(calls, "write_csv")
    /\ pc' = "preview"
    /\ UNCHANGED <<api_standings, api_advanced, standings, advanced, rows,
                   warnings, shown, file0, error, exit_code>>

\* preview(rows), the confirmation message, and the return of main: exit 0.
Preview ==
    /\ pc = "preview"
    /\ shown' = preview(rows)
    /\ calls' = Append(calls, "preview")
    /\ exit_code' = <<0>>
    /\ pc' = "exit"
    /\ UNCHANGED <<api_standings, api_advanced, standings, advanced, rows,
                   warnings, file, file0, error>>

Next ==
    \/ FetchStandingsRaises
    \/ FetchStandingsReturns
    \/ FetchAdvancedRaises
    \/ FetchAdvancedReturns
    \/ BuildRows
    \/ ExitNoRows
    \/ WriteCsv
    \/ Preview

Spec == Init /\ [][Next]_vars

\* The runs of main over responses whose teams all have the same name and
\* record, the advanced rows in ascending team id: which steps main takes
\* depends on the responses only through the team ids they hold.
InitPipeline ==
    /\ pc = "fetch_standings"
    /\ api_standings \in
         BoundedSeq({r \in StandingsRows : r.TEAMNAME = <<65>>}, MaxTeams)
    /\ api_advanced \in
         {a \in BoundedSeq(AdvancedRows, MaxTeams) :
             \A i \in 1..(Len(a) - 1) : a[i].TEAM_ID < a[i + 1].TEAM_ID}
    /\ standings = <<>>
    /\ advanced = <<>>
    /\ rows = <<>>
    /\ warnings = <<>>
    /\ shown = [names |-> <<>>, more |-> 0]
    /\ file0 \in PriorFiles
    /\ file = file0
    /\ error = ""
    /\ exit_code = <<>>
    /\ calls = <<>>

\* main is sequential: a step that can be taken is taken (each remote call
\* returns or raises within its timeout).
FairSpec == InitPipeline /\ [][Next]_vars /\ WF_vars(Next)

-----------------------------------------------------------------------------
(* fetch_standings over a range of records: one team, every wins and losses *)

InitWinPct ==
    /\ pc = "fetch_standings"
    /\ api_standings \in
         {<<[TEAMID |-> 9, TEAMNAME |-> <<65>>, WINS |-> w, LOSSES |-> l]>> :
             w \in 0..MaxWins, l \in 0..MaxLosses}
    /\ api_advanced \in BoundedSeq(AdvancedRows, 1)
    /\ standings = <<>>
    /\ advanced = <<>>
    /\ rows = <<>>
    /\ warnings = <<>>
    /\ shown = [names |-> <<>>, more |-> 0]
    /\ file0 \in PriorFiles
    /\ file = file0
    /\ error = ""
    /\ exit_code = <<>>
    /\ calls = <<>>

SpecWinPct == InitWinPct /\ [][Next]_vars

-----------------------------------------------------------------------------
(* write_csv called on its own, on any row list, the empty one included *)

MergedRowSamples ==
    {MergedRow(Str(i),
               [TEAM_NAME |-> t.TEAMNAME, W_PCT |-> WinPct(t.WINS, t.LOSSES).value],
               AdvancedEntry(AdvancedRow(i))) : i \in TeamIds, t \in TeamSamples}

InitWriter ==
    /\ pc = "call_write_csv"
    /\ api_standings = <<>>
    /\ api_advanced = <<>>
    /\ standings = <<>>
    /\ advanced = <<>>
    /\ rows \in BoundedSeq(MergedRowSamples, MaxTeams)
    /\ warnings = <<>>
    /\ shown = [names |-> <<>>, more |-> 0]
    /\ file0 \in PriorFiles
    /\ file = file0
    /\ error = ""
    /\ exit_code = <<>>
    /\ calls = <<>>

\* write_csv(rows, filepath)
WriteCsvCall ==
    /\ pc = "call_write_csv"
    /\ file' = write_csv(rows)
    /\ calls' = Append(calls, "write_csv")
    /\ pc' = "returned"
    /\ UNCHANGED <<api_standings, api_advanced, standings, advanced, rows,
                   warnings, shown, file0, error, exit_code>>

NextWriter == WriteCsvCall

SpecWriter == InitWriter /\ [][NextWriter]_vars

-----------------------------------------------------------------------------
(* Properties *)

Pipeline ==
    <<"fetch_standings", "fetch_advanced_stats", "build_rows", "write_csv", "preview">>

Called(c) == \E i \in 1..Len(calls) : calls[i] = c

TimesCalled(c) == Cardinality({i \in 1..Len(calls) : calls[i] = c})

\* fetch_standings() has returned its dict to main.
StandingsFetched == Len(calls) >= 1 /\ ~(Len(calls) = 1 /\ error # "")

\* a <= b for two strings, by the first position where they differ.
LexLeq(a, b) ==
    \E k \in 0..Len(a) :
        /\ k <= Len(b)
        /\ \A j \in 1..k : a[j] = b[j]
        /\ \/ k = Len(a)
           \/ k < Len(b) /\ a[k + 1] < b[k + 1]

\* The team ids that are keys of both mappings.
Common == {standings[i].k : i \in 1..Len(standings)}
              \cap {advanced[i].k : i \in 1..Len(advanced)}

\* The same items in every insertion order.
Orders(d) == {[i \in 1..Len(d) |-> d[f[i]]] : f \in Permutations(1..Len(d))}

Position(d, k) == CHOOSE i \in 1..Len(d) : d[i].k = k

Abs(x) == IF x < 0 THEN 0 - x ELSE x

\* C1: when a fetch raises, the process exits with code 1, no fetch is
\* called twice, build_rows, write_csv and preview are never called, and the
\* file at the output path is what it was before the run.
C1_FetchErrorExits ==
    error # "" =>
        /\ pc = "exit"
        /\ exit_code = <<1>>
        /\ TimesCalled("fetch_standings") <= 1
        /\ TimesCalled("fetch_advanced_stats") <= 1
        /\ ~Called("build_rows")
        /\ ~Called("write_csv")
        /\ ~Called("preview")
        /\ file = file0

C1_Witness ==
    /\ error # ""
    /\ calls = <<"fetch_standings", "fetch_advanced_stats">>
    /\ standings # <<>>
    /\ file0.exists
    /\ exit_code = <<1>>

\* C2: when both fetches succeed and build_rows returns no row, write_csv is
\* never called, the file is untouched, and the process exits with code 1.
C2_NoRowsExits ==
    (Called("build_rows") /\ rows = <<>>) =>
        /\ pc \in {"check_rows", "exit"}
        /\ ~Called("write_csv")
        /\ ~Called("preview")
        /\ file = file0
        /\ (pc = "exit" => exit_code = <<1>>)

C2_Witness ==
    /\ pc = "exit"
    /\ Called("build_rows")
    /\ Len(standings) = 1
    /\ advanced # <<>>
    /\ rows = <<>>
    /\ file0.exists
    /\ file = file0
    /\ exit_code = <<1>>

C3_Order ==
    /\ \E n \in 0..Len(Pipeline) : calls = SubSeq(Pipeline, 1, n)
    /\ (Called("build_rows") /\ rows # <<>> /\ pc = "exit") =>
          /\ calls = Pipeline
          /\ exit_code = <<0>>
          /\ file.exists
          /\ file.header = CSV_COLUMNS
          /\ Len(file.data) = Len(rows)
    /\ (exit_code = <<0>>) => (calls = Pipeline /\ rows # <<>>)
    /\ (file # file0) => Called("write_csv")

\* C3: the components run in the order fetch_standings, fetch_advanced_stats,
\* build_rows, write_csv, preview, each at most once; a run whose fetches
\* succeed and whose merge yields a row writes the file and exits with code 0;
\* every run terminates.
C3_Pipeline == []C3_Order /\ <>(pc = "exit")

C3_Witness ==
    /\ pc = "exit"
    /\ calls = Pipeline
    /\ exit_code = <<0>>
    /\ Len(rows) = 2
    /\ file # file0

\* C4: every row's TEAM_ID is a key of both mappings; a standings entry
\* missing from advanced gives a warning and no row, and the entries after
\* it are still merged.
C4_NoRowWithoutAdvanced ==
    Called("build_rows") =>
        /\ \A j \in 1..Len(rows) : rows[j].TEAM_ID \in Common
        /\ warnings =
             LET missing == SelectSeq(standings, LAMBDA e : e.k \notin Keys(advanced))
             IN  [i \in 1..Len(missing) |-> missing[i].v.TEAM_NAME]
        /\ \A i \in 1..Len(standings) :
              standings[i].k \in Keys(advanced) =>
                  \E j \in 1..Len(rows) : rows[j].TEAM_ID = standings[i].k

C4_Witness ==
    /\ Called("build_rows")
    /\ Len(standings) = 2
    /\ standings[1].k \notin Keys(advanced)
    /\ standings[2].k \in Keys(advanced)
    /\ Len(warnings) = 1
    /\ Len(rows) = 1

\* C5: the number of rows is the number of team ids that are keys of both
\* mappings, each of them in exactly one row, and at most the size of either
\* mapping.
C5_RowCount ==
    Called("build_rows") =>
        /\ Len(rows) = Cardinality(Common)
        /\ \A k \in Common :
              Cardinality({j \in 1..Len(rows) : rows[j].TEAM_ID = k}) = 1
        /\ Len(rows) <= Len(standings)
        /\ Len(rows) <= Len(advanced)

C5_Witness ==
    /\ Called("build_rows")
    /\ Len(standings) = 2
    /\ Len(advanced) = 2
    /\ Len(rows) = 2
    /\ rows[1].TEAM_NAME = rows[2].TEAM_NAME

\* C6: adjacent rows are in ascending TEAM_NAME order, and the data lines of
\* the written file are the rows in that order.
C6_SortedByTeamName ==
    /\ Called("build_rows") =>
          \A i \in 1..(Len(rows) - 1) :
              LexLeq(rows[i].TEAM_NAME, rows[i + 1].TEAM_NAME)
    /\ Called("write_csv") =>
          /\ Len(file.data) = Len(rows)
          /\ \A i \in 1..Len(rows) :
                /\ file.data[i][1] = rows[i].TEAM_ID
                /\ file.data[i][2] = rows[i].TEAM_NAME
          /\ \A i \in 1..(Len(file.data) - 1) :
                LexLeq(file.data[i][2], file.data[i + 1][2])

C6_Witness ==
    /\ Called("write_csv")
    /\ Len(standings) = 2
    /\ Len(rows) = 2
    /\ standings[1].v.TEAM_NAME = <<66>>
    /\ standings[2].v.TEAM_NAME = <<65, 66>>
    /\ rows[1].TEAM_NAME = <<65, 66>>

\* C7: a row holds the TEAM_NAME and W_PCT of the standings entry of its
\* TEAM_ID, the seven metrics of the advanced entry of that same id, and the
\* season label "2025-26".
C7_RowCombinesOneTeam ==
    Called("build_rows") =>
        \A j \in 1..Len(rows) :
            /\ \E i \in 1..Len(standings) :
                  /\ standings[i].k = rows[j].TEAM_ID
                  /\ rows[j].TEAM_NAME = standings[i].v.TEAM_NAME
                  /\ rows[j].W_PCT = standings[i].v.W_PCT
            /\ \E i \in 1..Len(advanced) :
                  /\ advanced[i].k = rows[j].TEAM_ID
                  /\ rows[j].OFF_RATING = advanced[i].v.OFF_RATING
                  /\ rows[j].DEF_RATING = advanced[i].v.DEF_RATING
                  /\ rows[j].NET_RATING = advanced[i].v.NET_RATING
                  /\ rows[j].AST_PCT = advanced[i].v.AST_PCT
                  /\ rows[j].REB_PCT = advanced[i].v.REB_PCT
                  /\ rows[j].TS_PCT = advanced[i].v.TS_PCT
                  /\ rows[j].PACE = advanced[i].v.PACE
            /\ rows[j].Season = "2025-26"
            /\ DOMAIN rows[j] =
                 {"TEAM_ID", "TEAM_NAME", "W_PCT", "OFF_RATING", "DEF_RATING",
                  "NET_RATING", "AST_PCT", "REB_PCT", "TS_PCT", "PACE", "Season"}

C7_Witness ==
    /\ Called("build_rows")
    /\ Len(rows) = 2
    /\ rows[1].TEAM_ID # rows[2].TEAM_ID
    /\ rows[1].W_PCT # rows[2].W_PCT
    /\ rows[1].OFF_RATING # rows[2].OFF_RATING

\* C8: after write_csv the file exists, its header is the fixed list of 11
\* columns also when there are no rows, its data lines are the rows, one per
\* row, in the given order, and nothing of the earlier content is left.
C8_HeaderThenRows ==
    pc = "returned" =>
        /\ file.exists
        /\ file.header =
             <<"TEAM_ID", "TEAM_NAME", "W_PCT", "OFF_RATING", "DEF_RATING",
               "NET_RATING", "AST_PCT", "REB_PCT", "TS_PCT", "PACE", "Season">>
        /\ Len(file.data) = Len(rows)
        /\ \A i \in 1..Len(rows) :
              file.data[i] =
                <<rows[i].TEAM_ID, rows[i].TEAM_NAME, rows[i].W_PCT,
                  rows[i].OFF_RATING, rows[i].DEF_RATING, rows[i].NET_RATING,
                  rows[i].AST_PCT, rows[i].REB_PCT, rows[i].TS_PCT, rows[i].PACE,
                  rows[i].Season>>

C8_Witness ==
    /\ pc = "returned"
    /\ rows = <<>>
    /\ file0 = EarlierFile
    /\ file.header # <<>>
    /\ file.data = <<>>

\* C9: W_PCT (in thousandths) is 0 when wins+losses = 0, and otherwise the
\* thousandth nearest to wins/(wins+losses), the even one on a tie; it lies
\* between 0 and 1000, and fetch_standings never raises ZeroDivisionError.
C9_WinPct ==
    /\ error # "ZeroDivisionError"
    /\ StandingsFetched =>
          \A i \in 1..Len(api_standings) :
              (\A j \in (i + 1)..Len(api_standings) :
                    api_standings[j].TEAMID # api_standings[i].TEAMID) =>
                  \E e \in 1..Len(standings) :
                      LET w == api_standings[i].WINS
                          n == api_standings[i].WINS + api_standings[i].LOSSES
                          p == standings[e].v.W_PCT
                      IN  /\ standings[e].k = Str(api_standings[i].TEAMID)
                          /\ p \in 0..1000
                          /\ n = 0 => p = 0
                          /\ n > 0 => /\ 2 * Abs(1000 * w - p * n) <= n
                                      /\ 2 * Abs(1000 * w - p * n) = n => p % 2 = 0

C9_Witness ==
    /\ StandingsFetched
    /\ Len(api_standings) = 1
    /\ api_standings[1].WINS = 0
    /\ api_standings[1].LOSSES = 0
    /\ Len(standings) = 1
    /\ standings[1].v.W_PCT = 0

\* C10 as stated: whatever the insertion order of the two mappings, build_rows
\* returns the rows main got, in the same order, and leaves both mappings as
\* the fetches built them.
C10_SameRowsForEqualMappings ==
    Called("build_rows") =>
        /\ standings = StandingsLoop(api_standings).dict
        /\ advanced = AdvancedLoop(api_advanced)
        /\ \A st \in Orders(standings) : \A adv \in Orders(advanced) :
              build_rows(st, adv).rows = rows

\* C10 amended: whatever the insertion order of the two mappings, build_rows
\* returns the same rows, and in the same order when no two of them share a
\* TEAM_NAME; rows that share a TEAM_NAME come in the insertion order of the
\* standings mapping; both mappings are left as the fetches built them.
C10_SameRowsUpToTies ==
    Called("build_rows") =>
        /\ standings = StandingsLoop(api_standings).dict
        /\ advanced = AdvancedLoop(api_advanced)
        /\ \A st \in Orders(standings) : \A adv \in Orders(advanced) :
              LET other == build_rows(st, adv).rows
              IN  /\ Len(other) = Len(rows)
                  /\ {other[i] : i \in 1..Len(other)} = {rows[i] : i \in 1..Len(rows)}
                  /\ (\A i, j \in 1..Len(rows) :
                          i # j => rows[i].TEAM_NAME # rows[j].TEAM_NAME)
                       => other = rows
                  /\ \A i, j \in 1..Len(other) :
                        (i < j /\ other[i].TEAM_NAME = other[j].TEAM_NAME) =>
                            Position(st, other[i].TEAM_ID) < Position(st, other[j].TEAM_ID)

C10_Witness ==
    /\ Called("build_rows")
    /\ Len(rows) = 2
    /\ rows[1].TEAM_NAME = rows[2].TEAM_NAME
    /\ rows[1].TEAM_ID = standings[1].k
    /\ rows[2].TEAM_ID = standings[2].k

====
